---------------------------- MODULE Spec2Model ----------------------------
(***************************************************************************)
(* A model of the kes secret key stores: the filesystem store              *)
(* (internal/fs/fs.go) and the in-memory store (mem KeyStore), each in     *)
(* front of a durable backend, with the secret cache, the optional KMS     *)
(* (secret.KMS) and the Ciphertext codec.                                  *)
(*                                                                         *)
(* Each thread runs one call at a time (Create, Get or Delete); every      *)
(* statement of a handler that touches shared state (cache, file system,   *)
(* in-memory table, lock, KMS) is one step, so that concurrent callers and *)
(* the cache's GC sweeps interleave as they do in the program.             *)
(***************************************************************************)
EXTENDS Integers, Sequences, FiniteSets, TLC

\* ------------------------------------------------------------- bounds ----
\* Calls issued over a run.
MaxCalls == 4

ThreadSlots == <<"t1", "t2">>
Threads == {ThreadSlots[i] : i \in DOMAIN ThreadSlots}
Before(u, t) == \E i, j \in DOMAIN ThreadSlots : i < j /\ ThreadSlots[i] = u /\ ThreadSlots[j] = t
Names == {"a", "b"}
FirstName == "a"
Secrets == {"s1", "s2"}

\* ---------------------------------------------------------- constants ----
\* secret.Secret{}: the zero value, never a valid stored secret.
ZeroSecret == "zero"
\* store.Key: the key reference configured for the KMS.
MasterKey == "master-1"
\* A thread's result slot holds no Secret (Create and Delete return only an error).
NoSecret == "none"
\* cache: no entry for the name.
NoEntry == "noentry"
\* ghost: no successful Create on record.
None == "nobody"
\* lock: not held.
Free == "free"
\* the store map of the in-memory backend before initialize(): a nil map.
NilMap == [nil |-> TRUE, has |-> {}, val |-> [n \in Names |-> <<>>]]
\* make(map[string]string)
EmptyMap == [nil |-> FALSE, has |-> {}, val |-> [n \in Names |-> <<>>]]

\* error values
Nil == "nil"
ErrKeyExists == "ErrKeyExists"
ErrKeyNotFound == "ErrKeyNotFound"
ErrKeySealed == "ErrKeySealed"
ErrEncrypt == "cannot encrypt key"
ErrDecrypt == "kms: decrypt failed"
ErrIO == "io error"
ErrNotExist == "file does not exist"
ErrWrite == "write error"
ErrSync == "sync error"
ErrSecretMalformed == "secret is malformed"
ErrCiphertextMalformed == "ciphertext is malformed"

\* ------------------------------------------------------------- codecs ----
\* Secret.String / Secret.WriteTo: the textual record of a plaintext secret.
SecretString(s) == <<"{bytes:", s, "}">>

\* Secret.ParseString / Secret.ReadFrom.
SecretParse(text) ==
    IF Len(text) = 3 /\ text[1] = "{bytes:" /\ text[3] = "}"
    THEN [err |-> Nil, sec |-> text[2]]
    ELSE [err |-> ErrSecretMalformed, sec |-> ZeroSecret]

\* base64.StdEncoding.EncodeToString of the blob.
Base64(bytes) == <<"b64">> \o bytes

\* Ciphertext.String / Ciphertext.WriteTo: {"key":"%s","bytes":"%s"}.
CiphertextString(c) == <<"{key:", c.Key, "bytes:", Base64(c.Bytes), "}">>

\* Ciphertext.ReadFrom: the decoder's error, or an empty key, is "ciphertext is malformed".
CiphertextReadFrom(text) ==
    IF /\ Len(text) = 5
       /\ text[1] = "{key:" /\ text[3] = "bytes:" /\ text[5] = "}"
       /\ Len(text[4]) >= 1 /\ text[4][1] = "b64"
       /\ text[2] # ""
    THEN [err |-> Nil, ct |-> [Key |-> text[2], Bytes |-> Tail(text[4])]]
    ELSE [err |-> ErrCiphertextMalformed, ct |-> [Key |-> "", Bytes |-> <<>>]]

\* ---------------------------------------------------------------- KMS ----
\* KMS.Encrypt on success: the ciphertext of the plaintext record under the key.
KMSEncrypt(key, s) == [Key |-> key, Bytes |-> <<"enc", key>> \o SecretString(s)]

\* KMS.Decrypt on success: the secret parsed from the decrypted plaintext record.
KMSDecrypt(c) ==
    IF Len(c.Bytes) >= 2 /\ c.Bytes[1] = "enc" /\ c.Bytes[2] = c.Key
    THEN SecretParse(SubSeq(c.Bytes, 3, Len(c.Bytes)))
    ELSE [err |-> ErrKeySealed, sec |-> ZeroSecret]

\* -------------------------------------------------------------- cache ----
\* cache.Get: (secret, ok).
CacheGet(c, n) == [ok |-> c[n] # NoEntry, sec |-> IF c[n] # NoEntry THEN c[n] ELSE ZeroSecret]
\* cache.Set: insert or overwrite.
CacheSet(c, n, s) == [c EXCEPT ![n] = s]
\* cache.Add: insert if absent.
CacheAdd(c, n, s) == IF c[n] = NoEntry THEN [c EXCEPT ![n] = s] ELSE c
\* cache.Delete.
CacheDelete(c, n) == [c EXCEPT ![n] = NoEntry]
\* Whether cache.Set puts a new entry in the place of one that is there: it always does.
CacheSetReplaces(c, n) == c[n] # NoEntry
\* Whether cache.Add does: never, it leaves the entry that is there.
CacheAddReplaces(c, n) == FALSE


\* ---------------------------------------------------------------- state ----
VARIABLES
    backend,    \* "fs" | "mem": which KeyStore this run is about
    kms,        \* store.KMS != nil
    cache,      \* store.cache: name -> Secret | NoEntry
    path,       \* fs: Dir/name -> inode number, 0 when no such file
    data,       \* fs: inode number -> file content (a text)
    store,      \* mem: store.store, [nil: is the map nil, has: its keys, val: name -> text]
    lock,       \* mem: store.lock, Free or the thread holding it
    once,       \* fs: store.once (0 | 1); mem: whether once.Do has run
    gcStarted,  \* how many times StartGC/StartUnusedGC have been started
    th,         \* thread -> its call: position, arguments, locals, result
    calls,      \* calls issued so far
    last,       \* the call that has just returned and what it returned, NoLast otherwise
    idle,       \* cache: name -> time since the entry's lastUsedAt (0 when there is no entry)
    given,      \* codec: the Ciphertext to write, or what the text to read was made of
    wire,       \* codec: the text written, the text to read
    result,     \* codec: what ReadFrom returned, NoRead before
    created,    \* ghost: name -> the Secret of the successful Create, None once a Delete begins
    fresh,      \* ghost: name -> Secret of the Create that returned nil last, while no
                \* eviction and no Delete of the name came since
    gone,       \* ghost: name -> a Delete returned nil and no Create of the name began since
    everDel,    \* ghost: name -> some Delete of the name was ever called
    dup,        \* ghost: two Creates of one name returned nil with no Delete of it called between
    faults      \* ghost: some KMS or file system call has failed in this run

vars == <<backend, kms, cache, path, data, store, lock, once, gcStarted, th, calls, last,
          idle, given, wire, result, created, fresh, gone, everDel, dup, faults>>

\* A step of the store as such: the clock does not advance, no Ciphertext is on the wire.
Instant == UNCHANGED <<idle, given, wire, result>>

Inodes == 1 .. (Cardinality(Names) + Cardinality(Threads))

NoCiphertext == [Key |-> "", Bytes |-> <<>>]

NoResult == [err |-> Nil, sec |-> NoSecret, log |-> <<>>]

Idle == [pc |-> "idle", op |-> "none", name |-> "none", arg |-> ZeroSecret, fd |-> 0,
         buf |-> <<>>, ct |-> NoCiphertext, sec |-> ZeroSecret, err |-> Nil,
         ret |-> NoResult, marks |-> {}]

NoLast == [op |-> "none", name |-> "none", arg |-> ZeroSecret, err |-> Nil, sec |-> NoSecret,
           log |-> <<>>, marks |-> {}]

InProgress(u) == th[u].pc # "idle"

Running(u, o, n) == InProgress(u) /\ th[u].op = o /\ th[u].name = n

\* store.logf(line) in the call of thread r: the lines the call has logged; no line is
\* logged when line is empty.
Logged(r, line) == IF line = "" THEN r ELSE [r EXCEPT !.ret.log = Append(@, line)]

\* The call of thread r returns (err, sec): its locals go, a held file is closed.
Return(r, err, sec) ==
    [r EXCEPT !.pc = "ret", !.ret = [err |-> err, sec |-> sec, log |-> r.ret.log], !.fd = 0,
              !.buf = <<>>, !.ct = NoCiphertext, !.sec = ZeroSecret, !.err = Nil]

\* The call of thread r returns (err, sec) after store.logf(line).
ReturnLogged(r, err, sec, line) == Return(Logged(r, line), err, sec)

\* A step of thread t's call leaves it at r; a call that has returned frees its slot
\* and shows as last.
MoveIn(base, t, r) ==
    /\ th' = [base EXCEPT ![t] = IF r.pc = "ret" THEN Idle ELSE r]
    /\ last' = IF r.pc = "ret"
               THEN [op |-> r.op, name |-> r.name, arg |-> r.arg, err |-> r.ret.err,
                     sec |-> r.ret.sec, log |-> r.ret.log, marks |-> r.marks]
               ELSE NoLast

Move(t, r) == MoveIn(th, t, r)

\* An inode lives while a path names it or a thread holds it open.
Live(i, p, t) == (\E n \in Names : p[n] = i) \/ (\E u \in Threads : t[u].fd = i)

Reclaim(d, p, t) == [i \in Inodes |-> IF Live(i, p, t) THEN d[i] ELSE <<>>]

NewInode == CHOOSE i \in Inodes : ~Live(i, path, th) /\ \A j \in Inodes : j < i => Live(j, path, th)

StoreInit ==
    /\ backend \in {"fs", "mem"}
    /\ kms \in BOOLEAN
    /\ cache = [n \in Names |-> NoEntry]
    /\ path = [n \in Names |-> 0]
    /\ data = [i \in Inodes |-> <<>>]
    /\ store = NilMap
    /\ lock = Free
    /\ once = 0
    /\ gcStarted = 0
    /\ th = [t \in Threads |-> Idle]
    /\ calls = 0
    /\ last = NoLast
    /\ idle = [n \in Names |-> 0]
    /\ created = [n \in Names |-> None]
    /\ fresh = [n \in Names |-> None]
    /\ gone = [n \in Names |-> FALSE]
    /\ everDel = [n \in Names |-> FALSE]
    /\ dup = FALSE
    /\ faults = FALSE

\* The store after construction; no Ciphertext is on the wire.
Init ==
    /\ StoreInit
    /\ given = [kind |-> "none"]
    /\ wire = ""
    /\ result = [n |-> 0, err |-> "none", ct |-> NoCiphertext]

\* ------------------------------------------------------- backend views ----
\* Whether the backend holds an entry for n: a file at Dir/n, a key of the table.
BackendHas(n) == IF backend = "fs" THEN path[n] # 0 ELSE n \in store.has

\* The stored text of n.
BackendText(n) == IF backend = "fs" THEN data[path[n]] ELSE store.val[n]

\* The backend as callers can observe it: name -> stored text, or no entry.
Backend == [n \in Names |-> IF BackendHas(n) THEN <<"entry", BackendText(n)>> ELSE <<"absent">>]

\* The Secret that re-reading (and, with a KMS, re-decrypting) the entry of n yields.
BackendSecret(n) ==
    IF kms
    THEN LET c == CiphertextReadFrom(BackendText(n)) IN
         IF c.err # Nil THEN NoSecret ELSE KMSDecrypt(c.ct).sec
    ELSE LET p == SecretParse(BackendText(n)) IN
         IF p.err # Nil THEN NoSecret ELSE p.sec

\* ---------------------------------------------------------------- calls ----
\* A new call takes the first free caller slot; names are interchangeable, and the
\* first call of a run names FirstName.
CanCall(t, n) ==
    /\ th[t].pc = "idle"
    /\ \A u \in Threads : Before(u, t) => InProgress(u)
    /\ calls < MaxCalls
    /\ calls = 0 => n = FirstName

Unmark(n, tags) ==
    [u \in Threads |-> IF th[u].name = n THEN [th[u] EXCEPT !.marks = @ \ tags] ELSE th[u]]

\* ghost: what holds of name n when a Create of it is called.
CreateMarks(n) ==
    (IF created[n] # None THEN {"after"} ELSE {})
    \cup (IF gone[n] THEN {"gone"} ELSE {})
    \cup (IF \A u \in Threads : ~Running(u, "Delete", n) THEN {"nodel"} ELSE {})
    \cup {"kept"}

\* ghost: what holds of name n when a Get of it is called.
GetMarks(n) ==
    (IF created[n] # None THEN {"after"} ELSE {})
    \cup (IF fresh[n] # None THEN {"fresh"} ELSE {})
    \cup (IF cache[n] = NoEntry THEN {"miss"} ELSE {})
    \cup (IF gone[n] THEN {"gone"} ELSE {})
    \cup (IF \A u \in Threads : ~Running(u, "Create", n) THEN {"quiet"} ELSE {})

\* ghost: what holds of name n when a Delete of it is called.
DeleteMarks(n) ==
    (IF BackendHas(n) THEN {} ELSE {"absent"})
    \cup (IF cache[n] # NoEntry THEN {"cached"} ELSE {})
    \cup (IF \A u \in Threads : ~Running(u, "Create", n) THEN {"solo"} ELSE {})

\* A caller enters Create(n, s), Get(n), Delete(n): the frame of the call.
CallCreate(n, s) ==
    [Idle EXCEPT !.pc = "c_chk", !.op = "Create", !.name = n, !.arg = s, !.marks = CreateMarks(n)]

CallGet(n) == [Idle EXCEPT !.pc = "g_chk", !.op = "Get", !.name = n, !.marks = GetMarks(n)]

CallDelete(n) ==
    [Idle EXCEPT !.pc = "d_rm", !.op = "Delete", !.name = n, !.marks = DeleteMarks(n)]

\* ghost: a Create of n is called.
CreateCalled(n) ==
    /\ calls' = calls + 1
    /\ gone' = [gone EXCEPT ![n] = FALSE]

\* ghost: a Get of n is called.
GetCalled(n) == calls' = calls + 1

\* ghost: a Delete of n is called.
DeleteCalled(n) ==
    /\ calls' = calls + 1
    /\ created' = [created EXCEPT ![n] = None]
    /\ fresh' = [fresh EXCEPT ![n] = None]
    /\ everDel' = [everDel EXCEPT ![n] = TRUE]

\* ghost: thread t's Create(n, s) returns nil.
Succeeded(t) ==
    LET n == th[t].name IN
    /\ created' = [created EXCEPT ![n] = IF "nodel" \in th[t].marks THEN th[t].arg ELSE @]
    /\ fresh' = [fresh EXCEPT ![n] = IF "kept" \in th[t].marks
                                          /\ \A u \in Threads : ~Running(u, "Delete", n)
                                       THEN th[t].arg ELSE None]
    /\ dup' = (dup \/ ("nodel" \in th[t].marks /\ created[n] # None))

\* ---------------------------------------------------- fs: KeyStore.Create ----
\* Variant: every caller of initialize starts the sweeps.
FsSwappedAlways(o) == TRUE

\* atomic.CompareAndSwapUint32(&store.once, 0, 1): whether this caller swapped.
FsSwapped(o) == o = 0

\* store.initialize(), the swap: store.once is 1 afterwards, whoever swapped.
FsInitialize == once' = 1

\* store.initialize() of the caller that swapped: StartGC and StartUnusedGC, after the
\* swap and with no lock held.
FsStartGC(t) ==
    LET r == th[t] IN
    /\ backend = "fs" /\ r.pc \in {"c_init", "g_init"}
    /\ gcStarted' = gcStarted + 1
    /\ Move(t, [r EXCEPT !.pc = IF r.op = "Create" THEN "c_chk" ELSE "g_chk"])
    /\ UNCHANGED <<backend, kms, cache, path, data, store, lock, once, calls,
                   created, fresh, gone, everDel, dup, faults>>

\* The cache pre-check of Create and where the call goes from there.
FsCreateChecked(r) ==
    IF CacheGet(cache, r.name).ok THEN Return(r, ErrKeyExists, NoSecret)
    ELSE IF kms THEN [r EXCEPT !.pc = "c_enc"]
    ELSE [r EXCEPT !.pc = "c_open", !.buf = SecretString(r.arg)]

\* initialize: the caller that swaps store.once goes on to start the sweeps; for any
\* other caller initialize is over, and the cache pre-check follows.
FsCreateCheck(t, n, s) ==
    LET r == CallCreate(n, s) IN
    /\ backend = "fs" /\ CanCall(t, n)
    /\ CreateCalled(n)
    /\ FsInitialize
    /\ MoveIn(Unmark(n, {"gone", "solo"}), t,
                IF FsSwapped(once) THEN [r EXCEPT !.pc = "c_init"] ELSE FsCreateChecked(r))
    /\ UNCHANGED <<backend, kms, cache, path, data, store, lock, gcStarted,
                   created, fresh, everDel, dup, faults>>

\* The cache pre-check of the Create that has started the sweeps.
FsCreateLookup(t) ==
    LET r == th[t] IN
    /\ backend = "fs" /\ r.pc = "c_chk"
    /\ Move(t, FsCreateChecked(r))
    /\ UNCHANGED <<backend, kms, cache, path, data, store, lock, once, gcStarted, calls,
                   created, fresh, gone, everDel, dup, faults>>

\* Variant: a failed Encrypt is swallowed.
FsCreateEncryptFailureSwallowed(kmsErr) == Nil

\* What Create returns when Encrypt fails: the KMS's error.
FsCreateEncryptFailure(kmsErr) == kmsErr

\* content, err = store.KMS.Encrypt(store.Key, secret)
FsCreateEncrypt(t) ==
    LET r == th[t] IN
    /\ backend = "fs" /\ r.pc = "c_enc"
    /\ \E fail \in BOOLEAN :
          /\ Move(t,
                      IF fail
                      THEN ReturnLogged(r, FsCreateEncryptFailure(ErrEncrypt), NoSecret,
                                        "fs: failed to encrypt secret")
                      ELSE [r EXCEPT !.pc = "c_open",
                                     !.buf = CiphertextString(KMSEncrypt(MasterKey, r.arg))])
          /\ faults' = (faults \/ fail)
    /\ UNCHANGED <<backend, kms, cache, path, data, store, lock, once, gcStarted, calls,
                   created, fresh, gone, everDel, dup>>

\* os.OpenFile(path, O_CREATE|O_EXCL|O_WRONLY)
FsCreateOpen(t) ==
    LET r == th[t] IN
    /\ backend = "fs" /\ r.pc = "c_open"
    /\ \E fail \in BOOLEAN :
          /\ faults' = (faults \/ fail)
          /\ IF fail
             THEN /\ Move(t, ReturnLogged(r, ErrIO, NoSecret, "fs: cannot open"))
                  /\ UNCHANGED <<path, data>>
             ELSE IF path[r.name] # 0
             THEN /\ Move(t, Return(r, ErrKeyExists, NoSecret))
                  /\ UNCHANGED <<path, data>>
             ELSE /\ Move(t, [r EXCEPT !.pc = "c_write", !.fd = NewInode])
                  /\ path' = [path EXCEPT ![r.name] = NewInode]
                  /\ data' = [data EXCEPT ![NewInode] = <<>>]
    /\ UNCHANGED <<backend, kms, cache, store, lock, once, gcStarted, calls,
                   created, fresh, gone, everDel, dup>>

\* content.WriteTo(file)
FsCreateWrite(t) ==
    LET r == th[t] IN
    /\ backend = "fs" /\ r.pc = "c_write"
    /\ \E fail \in BOOLEAN :
          /\ faults' = (faults \/ fail)
          /\ IF fail
             THEN /\ Move(t, [r EXCEPT !.pc = "c_rm", !.err = ErrWrite])
                  /\ UNCHANGED data
             ELSE /\ Move(t, [r EXCEPT !.pc = "c_sync"])
                  /\ data' = [data EXCEPT ![r.fd] = r.buf]
    /\ UNCHANGED <<backend, kms, cache, path, store, lock, once, gcStarted, calls,
                   created, fresh, gone, everDel, dup>>

\* file.Sync()
FsCreateSync(t) ==
    LET r == th[t] IN
    /\ backend = "fs" /\ r.pc = "c_sync"
    /\ \E fail \in BOOLEAN :
          /\ faults' = (faults \/ fail)
          /\ Move(t,
                      IF fail
                      THEN Logged([r EXCEPT !.pc = "c_rm", !.err = ErrSync],
                                  "fs: cannot to flush and sync")
                      ELSE [r EXCEPT !.pc = "c_set"])
    /\ UNCHANGED <<backend, kms, cache, path, data, store, lock, once, gcStarted, calls,
                   created, fresh, gone, everDel, dup>>

\* Variant: the rollback leaves the file in place.
FsRollbackPathKept(p, n, rmFail) == p

\* The path after the rollback's os.Remove(path): whatever file is at the path goes,
\* unless the removal itself fails.
FsRollbackPath(p, n, rmFail) == IF rmFail THEN p ELSE [p EXCEPT ![n] = 0]

\* store.logf("fs: cannot remove ..."): the rollback logs a removal that failed (also
\* when no file is at the path any more).
FsRollbackLog(p, n, rmFail) == IF rmFail \/ p[n] = 0 THEN "fs: cannot remove" ELSE ""

\* The error Create returns after the rollback: the write's or the sync's error.
FsRollbackError(err, rmFail) == err

\* The write or the sync failed: os.Remove(path), its failure only logged; return err.
FsCreateRollback(t) ==
    LET r == th[t] IN
    /\ backend = "fs" /\ r.pc = "c_rm"
    /\ \E rmFail \in BOOLEAN :
          /\ Move(t, ReturnLogged(r, FsRollbackError(r.err, rmFail), NoSecret,
                                   FsRollbackLog(path, r.name, rmFail)))
          /\ path' = FsRollbackPath(path, r.name, rmFail)
          /\ data' = Reclaim(data, path', th')
    /\ UNCHANGED <<backend, kms, cache, store, lock, once, gcStarted, calls,
                   created, fresh, gone, everDel, dup, faults>>

\* Variant: Create caches an empty Secret.
FsCreateCachedEmpty(secret, content) == ZeroSecret

\* What Create puts in the cache: the plaintext secret, not the written content.
FsCreateCached(secret, content) == secret

\* store.cache.Set(name, secret); return nil
FsCreateSet(t) ==
    LET r == th[t] IN
    /\ backend = "fs" /\ r.pc = "c_set"
    /\ cache' = CacheSet(cache, r.name, FsCreateCached(r.arg, r.buf))
    /\ Move(t, Return(r, Nil, NoSecret))
    /\ data' = Reclaim(data, path, th')
    /\ Succeeded(t)
    /\ UNCHANGED <<backend, kms, path, store, lock, once, gcStarted, calls,
                   gone, everDel, faults>>


\* ------------------------------------------------------- fs: KeyStore.Get ----
\* The cache check of Get: a hit returns the cached Secret. ghost: the call is marked
\* by whether it missed.
FsGetChecked(r) ==
    LET hit == CacheGet(cache, r.name)
        q == [r EXCEPT !.marks = IF hit.ok THEN @ \ {"miss"} ELSE @ \cup {"miss"}]
    IN  IF hit.ok THEN Return(q, Nil, hit.sec) ELSE [q EXCEPT !.pc = "g_open"]

\* initialize: the caller that swaps store.once goes on to start the sweeps; for any
\* other caller initialize is over, and the cache check follows.
FsGetCheck(t, n) ==
    LET r == CallGet(n) IN
    /\ backend = "fs" /\ CanCall(t, n)
    /\ GetCalled(n)
    /\ FsInitialize
    /\ Move(t, IF FsSwapped(once) THEN [r EXCEPT !.pc = "g_init"] ELSE FsGetChecked(r))
    /\ UNCHANGED <<backend, kms, cache, path, data, store, lock, gcStarted,
                   created, fresh, gone, everDel, dup, faults>>

\* The cache check of the Get that has started the sweeps.
FsGetLookup(t) ==
    LET r == th[t] IN
    /\ backend = "fs" /\ r.pc = "g_chk"
    /\ Move(t, FsGetChecked(r))
    /\ UNCHANGED <<backend, kms, cache, path, data, store, lock, once, gcStarted, calls,
                   created, fresh, gone, everDel, dup, faults>>

\* os.Open(path)
FsGetOpen(t) ==
    LET r == th[t] IN
    /\ backend = "fs" /\ r.pc = "g_open"
    /\ \E fail \in BOOLEAN :
          /\ faults' = (faults \/ fail)
          /\ Move(t,
                      IF fail THEN ReturnLogged(r, ErrIO, ZeroSecret, "fs: cannot open")
                      ELSE IF path[r.name] = 0 THEN Return(r, ErrKeyNotFound, ZeroSecret)
                      ELSE [r EXCEPT !.pc = "g_read", !.fd = path[r.name]])
    /\ UNCHANGED <<backend, kms, cache, path, data, store, lock, once, gcStarted, calls,
                   created, fresh, gone, everDel, dup>>

\* Variant: Get passes the parser's error on.
FsGetParseFailureRaw(parseErr) == parseErr

\* The error Get returns when the stored text is no Ciphertext.
FsGetParseFailure(parseErr) == ErrKeySealed

\* sec.ReadFrom(file) without a KMS, ciphertext.ReadFrom(file) with one.
FsGetRead(t) ==
    LET r == th[t]
        text == data[r.fd]
        plain == SecretParse(text)
        c == CiphertextReadFrom(text)
    IN
    /\ backend = "fs" /\ r.pc = "g_read"
    /\ Move(t,
                IF ~kms
                THEN IF plain.err # Nil
                     THEN ReturnLogged(r, plain.err, plain.sec, "fs: failed to parse secret")
                     ELSE [r EXCEPT !.pc = "g_add", !.sec = plain.sec]
                ELSE IF c.err # Nil
                     THEN ReturnLogged(r, FsGetParseFailure(c.err), r.sec,
                                       "fs: failed to parse ciphertext")
                     ELSE [r EXCEPT !.pc = "g_dec", !.ct = c.ct])
    /\ data' = Reclaim(data, path, th')
    /\ UNCHANGED <<backend, kms, cache, path, store, lock, once, gcStarted, calls,
                   created, fresh, gone, everDel, dup, faults>>

\* sec, err := store.KMS.Decrypt(ciphertext) declares a new sec in the else block:
\* the sec that Get caches and returns keeps the value it had before.
FsGetDecrypted(outer, inner) == outer

\* The error Get returns when Decrypt fails.
FsGetDecryptFailure(kmsErr) == ErrKeySealed

\* store.KMS.Decrypt(ciphertext)
FsGetDecrypt(t) ==
    LET r == th[t]
        d == KMSDecrypt(r.ct)
    IN
    /\ backend = "fs" /\ r.pc = "g_dec"
    /\ \E fail \in BOOLEAN :
          /\ faults' = (faults \/ fail)
          /\ Move(t,
                      IF fail
                      THEN ReturnLogged(r, FsGetDecryptFailure(ErrDecrypt), ZeroSecret,
                                        "fs: failed to decrypt ciphertext")
                      ELSE IF d.err # Nil
                      THEN ReturnLogged(r, FsGetDecryptFailure(d.err), d.sec,
                                        "fs: failed to decrypt ciphertext")
                      ELSE [r EXCEPT !.pc = "g_add", !.sec = FsGetDecrypted(r.sec, d.sec)])
    /\ data' = Reclaim(data, path, th')
    /\ UNCHANGED <<backend, kms, cache, path, store, lock, once, gcStarted, calls,
                   created, fresh, gone, everDel, dup>>

\* ghost: the mark of a Get whose populate step replaced an entry of the cache.
Populated(r, replaces) == [r EXCEPT !.marks = IF replaces THEN @ \cup {"replaced"} ELSE @]

\* secret, _ := store.cache.Add(name, sec); return secret, nil
FsGetAdd(t) ==
    LET r == th[t] IN
    /\ backend = "fs" /\ r.pc = "g_add"
    /\ cache' = CacheAdd(cache, r.name, r.sec)
    /\ Move(t, Return(Populated(r, CacheAddReplaces(cache, r.name)), Nil, cache'[r.name]))
    /\ data' = Reclaim(data, path, th')
    /\ UNCHANGED <<backend, kms, path, store, lock, once, gcStarted, calls,
                   created, fresh, gone, everDel, dup, faults>>

\* ---------------------------------------------------- fs: KeyStore.Delete ----
\* ghost: thread t's Delete(n) returns err.
Deleted(t, err) ==
    LET n == th[t].name IN
    gone' = [gone EXCEPT ![n] =
                IF err = Nil /\ "solo" \in th[t].marks THEN TRUE ELSE @]

\* What os.Remove(path) returns.
FsRemoveError(p, n, fail) == IF fail THEN ErrIO ELSE IF p[n] = 0 THEN ErrNotExist ELSE Nil

\* if err != nil && os.IsNotExist(err) { err = nil }
FsDeleteError(rmErr) == IF rmErr = ErrNotExist THEN Nil ELSE rmErr

\* Variant: Delete purges the cache only when the removal succeeded.
FsDeletePurgedOnSuccess(c, n, err) == IF err = Nil THEN CacheDelete(c, n) ELSE c

\* store.cache.Delete(name) runs whatever os.Remove returned.
FsDeletePurged(c, n, err) == CacheDelete(c, n)

\* os.Remove(path); a file that does not exist is no error.
FsDeleteRemove(t, n) ==
    LET r == CallDelete(n) IN
    /\ backend = "fs" /\ CanCall(t, n)
    /\ DeleteCalled(n)
    /\ \E fail \in BOOLEAN :
          /\ faults' = (faults \/ fail)
          /\ MoveIn(Unmark(n, {"after", "fresh", "nodel"}), t,
                    [r EXCEPT !.pc = "d_cache",
                              !.err = FsDeleteError(FsRemoveError(path, r.name, fail))])
          /\ path' = IF fail THEN path ELSE [path EXCEPT ![r.name] = 0]
          /\ data' = Reclaim(data, path', th')
    /\ UNCHANGED <<backend, kms, cache, store, lock, once, gcStarted, gone, dup>>

\* store.cache.Delete(name); return err
FsDeleteCache(t) ==
    LET r == th[t] IN
    /\ backend = "fs" /\ r.pc = "d_cache"
    /\ cache' = FsDeletePurged(cache, r.name, r.err)
    /\ Move(t, ReturnLogged(r, r.err, NoSecret,
                             IF r.err # Nil THEN "fs: failed to delete" ELSE ""))
    /\ Deleted(t, r.err)
    /\ UNCHANGED <<backend, kms, path, data, store, lock, once, gcStarted, calls,
                   created, fresh, everDel, dup, faults>>


\* --------------------------------------------------- mem: KeyStore.Create ----
\* Variant: a call returns without releasing store.lock.
UnlockSkipped(holder) == holder

\* store.lock.Unlock(), deferred in Create and Get, explicit in Delete: the lock after it.
Unlock(holder) == Free

\* store.initialize() under once.Do: allocate the table, start both GC sweeps.
MemInitialize ==
    IF store.nil /\ once = 0
    THEN /\ store' = EmptyMap
         /\ once' = 1
         /\ gcStarted' = gcStarted + 1
    ELSE UNCHANGED <<store, once, gcStarted>>

\* store.lock.Lock(); the cache pre-check; initialize if the table is nil.
MemCreateCheck(t, n, s) ==
    LET r == CallCreate(n, s) IN
    /\ backend = "mem" /\ CanCall(t, n)
    /\ CreateCalled(n)
    /\ lock = Free
    /\ IF CacheGet(cache, r.name).ok
       THEN /\ MoveIn(Unmark(n, {"gone", "solo"}), t, Return(r, ErrKeyExists, NoSecret))
            /\ UNCHANGED <<lock, store, once, gcStarted>>
       ELSE /\ MoveIn(Unmark(n, {"gone", "solo"}), t,
                        IF kms THEN [r EXCEPT !.pc = "c_enc"]
                        ELSE [r EXCEPT !.pc = "c_put", !.buf = SecretString(r.arg)])
            /\ lock' = t
            /\ MemInitialize
    /\ UNCHANGED <<backend, kms, cache, path, data, created, fresh, everDel, dup, faults>>

\* content, err = store.KMS.Encrypt(store.Key, secret), the lock held.
MemCreateEncrypt(t) ==
    LET r == th[t] IN
    /\ backend = "mem" /\ r.pc = "c_enc"
    /\ \E fail \in BOOLEAN :
          /\ faults' = (faults \/ fail)
          /\ Move(t,
                      IF fail
                      THEN ReturnLogged(r, ErrEncrypt, NoSecret, "mem: failed to encrypt secret")
                      ELSE [r EXCEPT !.pc = "c_put",
                                     !.buf = CiphertextString(KMSEncrypt(MasterKey, r.arg))])
          /\ lock' = IF fail THEN Unlock(lock) ELSE lock
    /\ UNCHANGED <<backend, kms, cache, path, data, store, once, gcStarted, calls,
                   created, fresh, gone, everDel, dup>>

\* Whether Create finds the name in the table.
MemCreateExists(m, n) == n \in m.has

\* if _, ok := store.store[name]; ok { return ErrKeyExists }; store.cache.Set(name, secret)
MemCreatePut(t) ==
    LET r == th[t] IN
    /\ backend = "mem" /\ r.pc = "c_put"
    /\ IF MemCreateExists(store, r.name)
       THEN /\ Move(t, Return(r, ErrKeyExists, NoSecret))
            /\ lock' = Unlock(lock)
            /\ UNCHANGED cache
       ELSE /\ Move(t, [r EXCEPT !.pc = "c_wr"])
            /\ cache' = CacheSet(cache, r.name, r.arg)
            /\ UNCHANGED lock
    /\ UNCHANGED <<backend, kms, path, data, store, once, gcStarted, calls,
                   created, fresh, gone, everDel, dup, faults>>

\* store.store[name] = content.String(); return nil (the deferred Unlock runs)
MemCreateStore(t) ==
    LET r == th[t] IN
    /\ backend = "mem" /\ r.pc = "c_wr"
    /\ store' = [store EXCEPT !.has = @ \cup {r.name}, !.val[r.name] = r.buf]
    /\ Move(t, Return(r, Nil, NoSecret))
    /\ lock' = Unlock(lock)
    /\ Succeeded(t)
    /\ UNCHANGED <<backend, kms, cache, path, data, once, gcStarted, calls,
                   gone, everDel, faults>>

\* --------------------------------------------------- mem: KeyStore.Delete ----
\* store.lock.Lock(); store.cache.Delete(name)
MemDeleteCache(t, n) ==
    LET r == CallDelete(n) IN
    /\ backend = "mem" /\ CanCall(t, n)
    /\ DeleteCalled(n)
    /\ lock = Free
    /\ lock' = t
    /\ cache' = CacheDelete(cache, r.name)
    /\ MoveIn(Unmark(n, {"after", "fresh", "nodel"}), t, [r EXCEPT !.pc = "d_store"])
    /\ UNCHANGED <<backend, kms, path, data, store, once, gcStarted, gone, dup, faults>>

\* delete(store.store, name); store.lock.Unlock(); return nil
MemDeleteStore(t) ==
    LET r == th[t] IN
    /\ backend = "mem" /\ r.pc = "d_store"
    /\ store' = [store EXCEPT !.has = @ \ {r.name}, !.val[r.name] = <<>>]
    /\ lock' = Unlock(lock)
    /\ Move(t, Return(r, Nil, NoSecret))
    /\ Deleted(t, Nil)
    /\ UNCHANGED <<backend, kms, cache, path, data, once, gcStarted, calls,
                   created, fresh, everDel, dup, faults>>

\* ------------------------------------------------------ mem: KeyStore.Get ----
\* sec, ok := store.cache.Get(name), without the lock.
MemGetCheck(t, n) ==
    LET r == CallGet(n)
        hit == CacheGet(cache, r.name)
    IN
    /\ backend = "mem" /\ CanCall(t, n)
    /\ GetCalled(n)
    /\ Move(t,
                IF hit.ok THEN Return(r, Nil, hit.sec) ELSE [r EXCEPT !.pc = "g_open"])
    /\ UNCHANGED <<backend, kms, cache, path, data, store, lock, once, gcStarted,
                   created, fresh, gone, everDel, dup, faults>>

\* store.lock.Lock(); s, ok := store.store[name]
MemGetLookup(t) ==
    LET r == th[t] IN
    /\ backend = "mem" /\ r.pc = "g_open"
    /\ lock = Free
    /\ IF r.name \in store.has
       THEN /\ Move(t, [r EXCEPT !.pc = "g_read", !.buf = store.val[r.name]])
            /\ lock' = t
       ELSE /\ Move(t, Return(r, ErrKeyNotFound, ZeroSecret))
            /\ UNCHANGED lock
    /\ UNCHANGED <<backend, kms, cache, path, data, store, once, gcStarted, calls,
                   created, fresh, gone, everDel, dup, faults>>

\* sec.ParseString(s) without a KMS, ciphertext.ReadFrom(strings.NewReader(s)) with one.
MemGetParse(t) ==
    LET r == th[t]
        plain == SecretParse(r.buf)
        c == CiphertextReadFrom(r.buf)
        failed == IF kms THEN c.err # Nil ELSE plain.err # Nil
    IN
    /\ backend = "mem" /\ r.pc = "g_read"
    /\ Move(t,
                IF ~kms
                THEN IF plain.err # Nil
                     THEN ReturnLogged(r, plain.err, ZeroSecret, "mem: failed to parse secret")
                     ELSE [r EXCEPT !.pc = "g_add", !.sec = plain.sec]
                ELSE IF c.err # Nil
                     THEN ReturnLogged(r, ErrKeySealed, ZeroSecret,
                                       "mem: failed to parse ciphertext")
                     ELSE [r EXCEPT !.pc = "g_dec", !.ct = c.ct])
    /\ lock' = IF failed THEN Unlock(lock) ELSE lock
    /\ UNCHANGED <<backend, kms, cache, path, data, store, once, gcStarted, calls,
                   created, fresh, gone, everDel, dup, faults>>

\* sec, err = store.KMS.Decrypt(ciphertext): an assignment to Get's own sec.
MemGetDecrypt(t) ==
    LET r == th[t]
        d == KMSDecrypt(r.ct)
    IN
    /\ backend = "mem" /\ r.pc = "g_dec"
    /\ \E fail \in BOOLEAN :
          /\ faults' = (faults \/ fail)
          /\ Move(t,
                      IF fail \/ d.err # Nil
                      THEN ReturnLogged(r, ErrKeySealed, ZeroSecret,
                                        "mem: failed to decrypt ciphertext")
                      ELSE [r EXCEPT !.pc = "g_add", !.sec = d.sec])
          /\ lock' = IF fail \/ d.err # Nil THEN Unlock(lock) ELSE lock
    /\ UNCHANGED <<backend, kms, cache, path, data, store, once, gcStarted, calls,
                   created, fresh, gone, everDel, dup>>

\* store.cache.Set(name, sec); return sec, nil (the deferred Unlock runs)
MemGetSet(t) ==
    LET r == th[t] IN
    /\ backend = "mem" /\ r.pc = "g_add"
    /\ cache' = CacheSet(cache, r.name, r.sec)
    /\ Move(t, Return(Populated(r, CacheSetReplaces(cache, r.name)), Nil, r.sec))
    /\ lock' = Unlock(lock)
    /\ UNCHANGED <<backend, kms, path, data, store, once, gcStarted, calls,
                   created, fresh, gone, everDel, dup, faults>>

\* ------------------------------------------------------------ GC sweeps ----
\* ghost: the cache entry of n is evicted.
Evicted(n) ==
    /\ fresh' = [fresh EXCEPT ![n] = None]
    /\ th' = Unmark(n, {"fresh", "kept"})
    /\ last' = NoLast

\* The sweep started by StartGC: an entry older than CacheExpireAfter goes.
GCExpire(n) ==
    /\ gcStarted > 0
    /\ cache[n] # NoEntry
    /\ cache' = CacheDelete(cache, n)
    /\ Evicted(n)
    /\ UNCHANGED <<backend, kms, path, data, store, lock, once, gcStarted, calls,
                   created, gone, everDel, dup, faults>>

\* The sweep started by StartUnusedGC: an entry not used for CacheExpireUnusedAfter/2 goes.
GCExpireUnused(n) ==
    /\ gcStarted > 0
    /\ cache[n] # NoEntry
    /\ cache' = CacheDelete(cache, n)
    /\ Evicted(n)
    /\ UNCHANGED <<backend, kms, path, data, store, lock, once, gcStarted, calls,
                   created, gone, everDel, dup, faults>>

\* ----------------------------------------------------------------- Next ----
Next ==
    \/ \E t \in Threads, n \in Names, s \in Secrets : FsCreateCheck(t, n, s) /\ Instant
    \/ \E t \in Threads : FsStartGC(t) /\ Instant
    \/ \E t \in Threads : FsCreateLookup(t) /\ Instant
    \/ \E t \in Threads : FsGetLookup(t) /\ Instant
    \/ \E t \in Threads : FsCreateEncrypt(t) /\ Instant
    \/ \E t \in Threads : FsCreateOpen(t) /\ Instant
    \/ \E t \in Threads : FsCreateWrite(t) /\ Instant
    \/ \E t \in Threads : FsCreateSync(t) /\ Instant
    \/ \E t \in Threads : FsCreateRollback(t) /\ Instant
    \/ \E t \in Threads : FsCreateSet(t) /\ Instant
    \/ \E t \in Threads, n \in Names : FsGetCheck(t, n) /\ Instant
    \/ \E t \in Threads : FsGetOpen(t) /\ Instant
    \/ \E t \in Threads : FsGetRead(t) /\ Instant
    \/ \E t \in Threads : FsGetDecrypt(t) /\ Instant
    \/ \E t \in Threads : FsGetAdd(t) /\ Instant
    \/ \E t \in Threads, n \in Names : FsDeleteRemove(t, n) /\ Instant
    \/ \E t \in Threads : FsDeleteCache(t) /\ Instant
    \/ \E t \in Threads, n \in Names, s \in Secrets : MemCreateCheck(t, n, s) /\ Instant
    \/ \E t \in Threads : MemCreateEncrypt(t) /\ Instant
    \/ \E t \in Threads : MemCreatePut(t) /\ Instant
    \/ \E t \in Threads : MemCreateStore(t) /\ Instant
    \/ \E t \in Threads, n \in Names : MemDeleteCache(t, n) /\ Instant
    \/ \E t \in Threads : MemDeleteStore(t) /\ Instant
    \/ \E t \in Threads, n \in Names : MemGetCheck(t, n) /\ Instant
    \/ \E t \in Threads : MemGetLookup(t) /\ Instant
    \/ \E t \in Threads : MemGetParse(t) /\ Instant
    \/ \E t \in Threads : MemGetDecrypt(t) /\ Instant
    \/ \E t \in Threads : MemGetSet(t) /\ Instant
    \/ \E n \in Names : GCExpire(n) /\ Instant
    \/ \E n \in Names : GCExpireUnused(n) /\ Instant

Spec == Init /\ [][Next]_vars


\* ----------------------------------------------------------- idle expiry ----
\* Config.CacheExpireUnusedAfter, in clock ticks.
CacheExpireUnusedAfter == 4

\* Idle times are counted up to this.
MaxIdle == CacheExpireUnusedAfter + 1

\* The interval initialize hands to StartUnusedGC: CacheExpireUnusedAfter/2.
UnusedInterval == CacheExpireUnusedAfter \div 2

\* The StartUnusedGC sweep removes an entry whose age since lastUsedAt exceeds its interval.
UnusedExpired(age, interval) == age > interval

\* No call is in progress: in this specification callers take turns.
OneCaller == \A u \in Threads : ~InProgress(u)

\* lastUsedAt after a step of a call or of a sweep, which takes no time: a cache.Get(n)
\* that hit, and a cache.Set or cache.Add that stored the entry of n, use the entry.
Stamp ==
    LET Used(n) ==
            \/ /\ OneCaller /\ cache[n] # NoEntry
               /\ last'.name = n /\ last'.op \in {"Create", "Get"}
            \/ /\ cache'[n] # NoEntry
               /\ \E t \in Threads : th[t].name = n /\ th[t].pc \in {"c_chk", "g_chk", "c_set", "c_put", "g_add"}
    IN  /\ idle' = [n \in Names |-> IF cache'[n] = NoEntry \/ Used(n) THEN 0 ELSE idle[n]]
        /\ UNCHANGED <<given, wire, result>>

\* One tick of the clock passes.
Tick ==
    /\ \E n \in Names : cache[n] # NoEntry /\ idle[n] < MaxIdle
    /\ idle' = [n \in Names |-> IF cache[n] = NoEntry THEN 0
                                ELSE IF idle[n] < MaxIdle THEN idle[n] + 1 ELSE MaxIdle]
    /\ last' = NoLast
    /\ UNCHANGED <<backend, kms, cache, path, data, store, lock, once, gcStarted, th, calls,
                   given, wire, result, created, fresh, gone, everDel, dup, faults>>

\* The StartUnusedGC sweep evicts the entry of n.
IdleSweeps(n) == UnusedExpired(idle[n], UnusedInterval) /\ GCExpireUnused(n) /\ Stamp

\* The store with its clock: one caller at a time, and CacheExpireAfter zero, so that the
\* only sweep is the one of StartUnusedGC.
TimedNext ==
    \/ \E t \in Threads, n \in Names, s \in Secrets : OneCaller /\ FsCreateCheck(t, n, s) /\ Stamp
    \/ \E t \in Threads : FsStartGC(t) /\ Stamp
    \/ \E t \in Threads : FsCreateLookup(t) /\ Stamp
    \/ \E t \in Threads : FsGetLookup(t) /\ Stamp
    \/ \E t \in Threads : FsCreateEncrypt(t) /\ Stamp
    \/ \E t \in Threads : FsCreateOpen(t) /\ Stamp
    \/ \E t \in Threads : FsCreateWrite(t) /\ Stamp
    \/ \E t \in Threads : FsCreateSync(t) /\ Stamp
    \/ \E t \in Threads : FsCreateRollback(t) /\ Stamp
    \/ \E t \in Threads : FsCreateSet(t) /\ Stamp
    \/ \E t \in Threads, n \in Names : OneCaller /\ FsGetCheck(t, n) /\ Stamp
    \/ \E t \in Threads : FsGetOpen(t) /\ Stamp
    \/ \E t \in Threads : FsGetRead(t) /\ Stamp
    \/ \E t \in Threads : FsGetDecrypt(t) /\ Stamp
    \/ \E t \in Threads : FsGetAdd(t) /\ Stamp
    \/ \E t \in Threads, n \in Names : OneCaller /\ FsDeleteRemove(t, n) /\ Stamp
    \/ \E t \in Threads : FsDeleteCache(t) /\ Stamp
    \/ \E t \in Threads, n \in Names, s \in Secrets : OneCaller /\ MemCreateCheck(t, n, s) /\ Stamp
    \/ \E t \in Threads : MemCreateEncrypt(t) /\ Stamp
    \/ \E t \in Threads : MemCreatePut(t) /\ Stamp
    \/ \E t \in Threads : MemCreateStore(t) /\ Stamp
    \/ \E t \in Threads, n \in Names : OneCaller /\ MemDeleteCache(t, n) /\ Stamp
    \/ \E t \in Threads : MemDeleteStore(t) /\ Stamp
    \/ \E t \in Threads, n \in Names : OneCaller /\ MemGetCheck(t, n) /\ Stamp
    \/ \E t \in Threads : MemGetLookup(t) /\ Stamp
    \/ \E t \in Threads : MemGetParse(t) /\ Stamp
    \/ \E t \in Threads : MemGetDecrypt(t) /\ Stamp
    \/ \E t \in Threads : MemGetSet(t) /\ Stamp
    \/ \E n \in Names : IdleSweeps(n)
    \/ Tick

TimedSpec == Init /\ [][TimedNext]_vars

\* ------------------------------------------- Ciphertext, byte by byte ----
\* A text is a string; a blob is a sequence of bytes, 0 .. 255.
At(x, i) == IF 1 <= i /\ i <= Len(x) THEN SubSeq(x, i, i) ELSE ""

From(x, i) == SubSeq(x, i, Len(x))

\* The alphabet of base64.StdEncoding.
StdEncoding == "ABCDEFGHIJKLMNOPQRSTUVWXYZabcdefghijklmnopqrstuvwxyz0123456789+/"

\* base64.StdEncoding.EncodeToString: three bytes to four digits, the rest padded with "=".
RECURSIVE EncodeToString(_)
EncodeToString(b) ==
    LET Digit(v) == At(StdEncoding, v + 1) IN
    IF Len(b) = 0 THEN ""
    ELSE IF Len(b) = 1
    THEN Digit(b[1] \div 4) \o Digit((b[1] % 4) * 16) \o "=="
    ELSE IF Len(b) = 2
    THEN Digit(b[1] \div 4) \o Digit((b[1] % 4) * 16 + b[2] \div 16)
            \o Digit((b[2] % 16) * 4) \o "="
    ELSE Digit(b[1] \div 4) \o Digit((b[1] % 4) * 16 + b[2] \div 16)
            \o Digit((b[2] % 16) * 4 + b[3] \div 64) \o Digit(b[3] % 64)
            \o EncodeToString(SubSeq(b, 4, Len(b)))

\* The decoder of base64.StdEncoding skips CR and LF.
RECURSIVE Unwrapped(_)
Unwrapped(s) ==
    IF s = "" THEN ""
    ELSE IF At(s, 1) \in {"\r", "\n"} THEN Unwrapped(From(s, 2))
    ELSE At(s, 1) \o Unwrapped(From(s, 2))

NoBlob == [ok |-> FALSE, bytes |-> <<>>]

\* Four digits to three bytes; padding only in the last quantum; spare bits are dropped.
RECURSIVE Quanta(_)
Quanta(t) ==
    LET IsDigit(ch) == \E i \in 1 .. 64 : At(StdEncoding, i) = ch
        Value(ch) == (CHOOSE i \in 1 .. 64 : At(StdEncoding, i) = ch) - 1
        a == At(t, 1)
        b == At(t, 2)
        c == At(t, 3)
        d == At(t, 4)
        rest == From(t, 5)
        b1 == Value(a) * 4 + Value(b) \div 16
        b2 == (Value(b) % 16) * 16 + Value(c) \div 4
        b3 == (Value(c) % 4) * 64 + Value(d)
    IN  IF t = "" THEN [ok |-> TRUE, bytes |-> <<>>]
        ELSE IF Len(t) < 4 THEN NoBlob
        ELSE IF IsDigit(a) /\ IsDigit(b) /\ IsDigit(c) /\ IsDigit(d)
        THEN LET r == Quanta(rest) IN
             IF r.ok THEN [ok |-> TRUE, bytes |-> <<b1, b2, b3>> \o r.bytes] ELSE NoBlob
        ELSE IF rest = "" /\ IsDigit(a) /\ IsDigit(b) /\ IsDigit(c) /\ d = "="
        THEN [ok |-> TRUE, bytes |-> <<b1, b2>>]
        ELSE IF rest = "" /\ IsDigit(a) /\ IsDigit(b) /\ c = "=" /\ d = "="
        THEN [ok |-> TRUE, bytes |-> <<b1>>]
        ELSE NoBlob

\* base64.StdEncoding.Decode, as encoding/json applies it to the string of a []byte field.
DecodeString(s) == Quanta(Unwrapped(s))

\* Ciphertext.String: fmt.Sprintf(`{"key":"%s","bytes":"%s"}`, c.Key, base64 of c.Bytes);
\* %s writes the key as it is.
String(c) == "{\"key\":\"" \o c.Key \o "\",\"bytes\":\"" \o EncodeToString(c.Bytes) \o "\"}"

\* Ciphertext.WriteTo: io.WriteString(w, c.String()), the text written and its length.
WriteTo(c) == [text |-> String(c), n |-> Len(String(c))]

\* --- encoding/json, as far as a Ciphertext goes
\* White space between the tokens of JSON is skipped.
RECURSIVE SkipSpace(_, _)
SkipSpace(x, i) == IF At(x, i) \in {" ", "\t", "\n", "\r"} THEN SkipSpace(x, i + 1) ELSE i

\* The rune of a code point; one that no TLA+ character stands for is written <U+n>,
\* half a surrogate pair is U+FFFD.
Rune(code) ==
    LET To95 == " !\"#$%&'()*+,-./0123456789:;<=>?@ABCDEFGHIJKLMNOPQRSTUVWXYZ[\\]^_"
        From97 == "abcdefghijklmnopqrstuvwxyz{|}~"
    IN  IF 32 <= code /\ code <= 95 THEN At(To95, code - 31)
        ELSE IF 97 <= code /\ code <= 126 THEN At(From97, code - 96)
        ELSE IF code = 9 THEN "\t"
        ELSE IF code = 10 THEN "\n"
        ELSE IF code = 12 THEN "\f"
        ELSE IF code = 13 THEN "\r"
        ELSE IF 55296 <= code /\ code <= 57343 THEN "<U+65533>"
        ELSE "<U+" \o ToString(code) \o ">"

\* The rune of a one-letter escape; "" when there is no such escape.
Escape(ch) ==
    CASE ch = "\"" -> "\""
      [] ch = "\\" -> "\\"
      [] ch = "/" -> "/"
      [] ch = "b" -> Rune(8)
      [] ch = "f" -> "\f"
      [] ch = "n" -> "\n"
      [] ch = "r" -> "\r"
      [] ch = "t" -> "\t"
      [] OTHER -> ""

\* The code point that the escape \uXXXX at x[i] writes; when x[i] is no such escape,
\* minus the index of the first byte that does not fit.
Hex4(x, i) ==
    LET digits == "0123456789abcdefABCDEF"
        Value(ch) == IF \E j \in 1 .. 22 : At(digits, j) = ch
                     THEN LET j == CHOOSE k \in 1 .. 22 : At(digits, k) = ch IN
                          IF j <= 16 THEN j - 1 ELSE j - 7
                     ELSE -1
        Code(v) == IF \A k \in 2 .. 5 : v[k] >= 0
                   THEN v[2] * 4096 + v[3] * 256 + v[4] * 16 + v[5]
                   ELSE 0 - (i + CHOOSE k \in 2 .. 5 : v[k] < 0 /\ \A j \in 2 .. k - 1 : v[j] >= 0)
    IN  IF At(x, i) # "\\" THEN 0 - i
        ELSE IF At(x, i + 1) # "u" THEN 0 - (i + 1)
        ELSE Code([k \in 2 .. 5 |-> Value(At(x, i + k))])

\* The body of a JSON string from x[i] to its closing quote: the runes it denotes and the
\* index after the quote. A control character, an unknown escape and the end of the text
\* are errors; next is then the index of the byte that is rejected (Len(x) + 1 when the
\* text has ended).
RECURSIVE StringBody(_, _, _)
StringBody(x, i, acc) ==
    LET Bad(k) == [ok |-> FALSE, next |-> k, rune |-> ""]
        Good(k, r) == [ok |-> TRUE, next |-> k, rune |-> r]
        \* \uXXXX: hi is its code point, lo that of the escape after it
        Unicode(hi, lo) ==
            IF hi < 0 THEN Bad(0 - hi)
            ELSE IF 55296 <= hi /\ hi <= 56319 /\ 56320 <= lo /\ lo <= 57343
            THEN Good(i + 12, Rune(65536 + (hi - 55296) * 1024 + (lo - 56320)))
            ELSE Good(i + 6, Rune(hi))
        \* the rune written at x[i], ch, and the index after it
        Letter(r) == IF r # "" THEN Good(i + 2, r) ELSE Bad(i + 1)
        Char(ch, e) ==
            IF ch = "" \/ ch \in {"\t", "\n", "\r", "\f"} THEN Bad(i)
            ELSE IF ch = "\"" THEN Good(i + 1, "")
            ELSE IF ch # "\\" THEN Good(i + 1, ch)
            ELSE IF e = "u"
            THEN Unicode(Hex4(x, i), Hex4(x, i + 6))
            ELSE Letter(Escape(e))
        Rest(ch, n) ==
            IF ~n.ok THEN [ok |-> FALSE, next |-> n.next, val |-> <<>>]
            ELSE IF ch = "\"" THEN [ok |-> TRUE, next |-> n.next, val |-> acc]
            ELSE StringBody(x, n.next, Append(acc, n.rune))
    IN  Rest(At(x, i), Char(At(x, i), At(x, i + 1)))

\* The JSON string that opens at x[i].
Unquote(x, i) == StringBody(x, i + 1, <<>>)

\* The text of a sequence of runes.
RECURSIVE Join(_)
Join(runes) == IF runes = <<>> THEN "" ELSE Head(runes) \o Join(Tail(runes))

\* The decimal digits, in the order of their values.
Digits == "0123456789"

\* The scanner of encoding/json on the number whose next byte is x[k]: state is the
\* step of the scanner (stateNeg, state0, state1, stateDot, stateDot0, stateE, stateESign,
\* stateE0) that takes the byte. The index after the number, or the byte rejected.
RECURSIVE Number(_, _, _)
Number(x, k, state) ==
    LET Step(ch, digit) ==
            CASE state = "Neg" -> IF ch = "0" THEN "0" ELSE IF digit THEN "1" ELSE "Error"
              [] state = "Dot" -> IF digit THEN "Dot0" ELSE "Error"
              [] state = "E" -> IF ch \in {"+", "-"} THEN "ESign"
                                ELSE IF digit THEN "E0" ELSE "Error"
              [] state = "ESign" -> IF digit THEN "E0" ELSE "Error"
              [] state = "E0" -> IF digit THEN "E0" ELSE "End"
              [] state = "1" /\ digit -> "1"
              [] state = "Dot0" /\ digit -> "Dot0"
              [] state = "0" /\ ch = "." -> "Dot"
              [] state = "1" /\ ch = "." -> "Dot"
              [] OTHER -> IF ch \in {"e", "E"} THEN "E" ELSE "End"
        Rest(n) == IF n = "Error" THEN [ok |-> FALSE, next |-> k]
                   ELSE IF n = "End" THEN [ok |-> TRUE, next |-> k]
                   ELSE Number(x, k + 1, n)
    IN  Rest(Step(At(x, k), \E j \in 1 .. 10 : At(Digits, j) = At(x, k)))

\* The scanner of encoding/json on the value that opens at x[i], white space skipped
\* before: whether the value is well formed, and the index after it or, when it is not,
\* the index of the byte the scanner rejects (Len(x) + 1 when the text ends first).
\* Inside(x, k, close, first) is the same for what is left of an object (close is the
\* brace) or an array (the bracket) from its member at x[k]; the object or array may
\* close there only before its first member.
RECURSIVE Scan(_, _), Inside(_, _, _, _)
Inside(x, k, close, first) ==
    LET Good(j) == [ok |-> TRUE, next |-> j]
        Bad(j) == [ok |-> FALSE, next |-> j]
        \* the value of the member opens at x[at]; at is 0 when the member is not well
        \* formed up to there, and bad is then the byte rejected
        Scanned(v) == [ok |-> v.ok, next |-> v.next, after |-> SkipSpace(x, v.next)]
        Value(at, bad) ==
            IF at = 0 THEN [ok |-> FALSE, next |-> bad, after |-> bad]
            ELSE Scanned(Scan(x, at))
        Key(name, colon) ==
            IF ~name.ok THEN Value(0, name.next)
            ELSE IF At(x, colon) # ":" THEN Value(0, colon)
            ELSE Value(SkipSpace(x, colon + 1), 0)
        Named(name) == Key(name, SkipSpace(x, name.next))
        Member ==
            IF close = "]" THEN Value(k, 0)
            ELSE IF At(x, k) # "\"" THEN Value(0, k)
            ELSE Named(Unquote(x, k))
        \* after the value v of a member: the end, or a comma and the next member
        Rest(v) ==
            IF ~v.ok THEN Bad(v.next)
            ELSE IF At(x, v.after) = close THEN Good(v.after + 1)
            ELSE IF At(x, v.after) = ","
            THEN Inside(x, SkipSpace(x, v.after + 1), close, FALSE)
            ELSE Bad(v.after)
    IN  IF first /\ At(x, k) = close THEN Good(k + 1)
        ELSE Rest(Member)

Scan(x, i) ==
    LET \* the word w written at x[i], or the first byte that is not of it
        Word(w) == IF \A j \in 1 .. Len(w) : At(x, i + j - 1) = At(w, j)
                   THEN [ok |-> TRUE, next |-> i + Len(w)]
                   ELSE [ok |-> FALSE,
                         next |-> i - 1 + CHOOSE j \in 1 .. Len(w) :
                                      /\ At(x, i + j - 1) # At(w, j)
                                      /\ \A m \in 1 .. j - 1 : At(x, i + m - 1) = At(w, m)]
        Quoted(str) == [ok |-> str.ok, next |-> str.next]
        Value(ch) ==
            IF ch \in {"{", "["}
            THEN Inside(x, SkipSpace(x, i + 1), IF ch = "{" THEN "}" ELSE "]", TRUE)
            ELSE IF ch = "\""
            THEN Quoted(Unquote(x, i))
            ELSE IF ch \in {"t", "f", "n"}
            THEN Word(IF ch = "t" THEN "true" ELSE IF ch = "f" THEN "false" ELSE "null")
            ELSE IF ch = "-" \/ \E j \in 1 .. 10 : At(Digits, j) = ch
            THEN Number(x, IF ch = "-" THEN i + 1 ELSE i, "Neg")
            ELSE [ok |-> FALSE, next |-> i]
    IN  Value(At(x, i))

\* The field of Ciphertext an object key names, by the json tags "key" and "bytes":
\* names match whatever the case of their letters.
Field(name) ==
    LET upper == "ABCDEFGHIJKLMNOPQRSTUVWXYZ"
        lower == "abcdefghijklmnopqrstuvwxyz"
        Fold(rune) ==
            IF \E i \in 1 .. 26 : At(upper, i) = rune
            THEN At(lower, CHOOSE i \in 1 .. 26 : At(upper, i) = rune)
            ELSE IF rune = "<U+8490>" THEN "k"
            ELSE IF rune = "<U+383>" THEN "s"
            ELSE rune
        folded == [i \in 1 .. Len(name) |-> Fold(name[i])]
    IN  IF folded = <<"k", "e", "y">> THEN "Key"
        ELSE IF folded = <<"b", "y", "t", "e", "s">> THEN "Bytes"
        ELSE ""

\* What Decode has stored so far: the two fields, the array behind Bytes (Bytes is the
\* front of it), and whether an error has been saved. Decoding goes on after a saved
\* error; what follows it is still stored.
NoFields == [Key |-> "", Bytes |-> <<>>, back |-> <<>>, saved |-> FALSE]

\* The elements of a well-formed array decoded into Bytes, from the element that opens at
\* x[i]; e holds the elements before it. An element that is a number from 0 to 255
\* written with digits only is stored; null leaves the byte as it is in the array behind
\* (zero past its end); any other element leaves it too and is a saved error. Bytes is
\* cut to the number of elements.
RECURSIVE Elements(_, _, _, _)
Elements(x, i, c, e) ==
    LET k == Len(e) + 1
        prior == IF k <= Len(c.back) THEN c.back[k] ELSE 0
        \* a number of one to three digits, or 256
        Decimal(d) == IF Len(d) = 1 THEN d[1]
                      ELSE IF Len(d) = 2 THEN d[1] * 10 + d[2]
                      ELSE IF Len(d) = 3 THEN d[1] * 100 + d[2] * 10 + d[3]
                      ELSE 256
        Uint(text) ==
            Decimal([j \in 1 .. Len(text) |->
                       IF \E v \in 1 .. 10 : At(Digits, v) = At(text, j)
                       THEN (CHOOSE v \in 1 .. 10 : At(Digits, v) = At(text, j)) - 1
                       ELSE 256])
        \* the element is followed by x[after], uint is the number it writes
        Element(after, uint) ==
            LET elems == Append(e, IF uint <= 255 THEN uint ELSE prior)
                d == IF uint <= 255 \/ At(x, i) = "n" THEN c ELSE [c EXCEPT !.saved = TRUE]
            IN  IF At(x, after) = ","
                THEN Elements(x, SkipSpace(x, after + 1), d, elems)
                ELSE [d EXCEPT !.Bytes = elems,
                               !.back = elems \o SubSeq(c.back, Len(elems) + 1, Len(c.back))]
        \* the element is x[i] .. x[end - 1]
        Scanned(end) == Element(SkipSpace(x, end), Uint(SubSeq(x, i, end - 1)))
    IN  IF At(x, i) = "]" THEN [c EXCEPT !.Bytes = <<>>, !.back = <<>>]
        ELSE Scanned(Scan(x, i).next)

\* The members of a well-formed object from the key that opens at x[i] to the closing
\* brace, decoded into c. A string is stored in Key, or in Bytes when it is base64; null
\* empties Bytes and leaves Key; an array is decoded into Bytes element by element. An
\* unknown field, a string of Bytes that is not base64 and every other kind of value are
\* saved errors that store nothing, and the members after them are decoded all the same.
RECURSIVE Members(_, _, _)
Members(x, i, c) ==
    LET failed == [c EXCEPT !.saved = TRUE]
        \* a string str as the value of the field f
        Blob(blob) == IF blob.ok THEN [c EXCEPT !.Bytes = blob.bytes, !.back = blob.bytes]
                      ELSE failed
        Text(f, str) ==
            IF f = "Key" THEN [c EXCEPT !.Key = Join(str.val)]
            ELSE Blob(DecodeString(Join(str.val)))
        \* the value that opens at x[v] as the value of the field f
        Set(f, v, ch) ==
            IF f = "" THEN failed
            ELSE IF ch = "n"
            THEN IF f = "Bytes" THEN [c EXCEPT !.Bytes = <<>>, !.back = <<>>] ELSE c
            ELSE IF ch = "\"" THEN Text(f, Unquote(x, v))
            ELSE IF ch = "[" /\ f = "Bytes"
            THEN Elements(x, SkipSpace(x, v + 1), c, <<>>)
            ELSE failed
        Rest(set, after) ==
            IF At(x, after) = ","
            THEN Members(x, SkipSpace(x, after + 1), set)
            ELSE set
        Member(f, v) == Rest(Set(f, v, At(x, v)), SkipSpace(x, Scan(x, v).next))
        Named(name) == Member(Field(name.val), SkipSpace(x, SkipSpace(x, name.next) + 1))
    IN  Named(Unquote(x, i))

\* decoder.Decode(c) with DisallowUnknownFields, c the zero Ciphertext: the first JSON
\* value of x is scanned and, when it is well formed, decoded; what follows it is not
\* looked at. ct is c after the call, also when the call fails. A value that is no
\* object is an error, or, when it is null, leaves c as it is. read is the index of the
\* last byte the decoder has to see: the closing brace or bracket, the byte after a
\* value of another kind, or the byte the scanner rejects.
Decode(x) ==
    LET \* what the well-formed value that opens at x[i] stores
        Stored(i) ==
            IF At(x, i) = "{"
            THEN IF At(x, SkipSpace(x, i + 1)) = "}" THEN NoFields
                 ELSE Members(x, SkipSpace(x, i + 1), NoFields)
            ELSE IF At(x, i) = "n" THEN NoFields
            ELSE [NoFields EXCEPT !.saved = TRUE]
        Decoded(i, v, c) ==
            [ok |-> ~c.saved,
             read |-> IF At(x, i) \in {"{", "["} THEN v.next - 1 ELSE v.next,
             ct |-> [Key |-> c.Key, Bytes |-> c.Bytes]]
        Scanned(i, v) ==
            IF ~v.ok THEN [ok |-> FALSE, read |-> v.next, ct |-> NoCiphertext]
            ELSE Decoded(i, v, Stored(i))
        Value(i) == Scanned(i, Scan(x, i))
    IN  Value(SkipSpace(x, 1))

\* MaxSize of ReadFrom, scaled: 10 MiB in the code.
MaxSize == 40

\* io.LimitedReader{R: r, N: n}: what can be read of x.
LimitedReader(x, n) == IF Len(x) <= n THEN x ELSE SubSeq(x, 1, n)

\* The first piece json.Decoder reads of its input (minRead of Decoder.refill).
minRead == 512

\* Decoder.refill: the decoder reads a piece that fills its buffer, and a buffer that is
\* full is made twice as large and minRead more. What it has read when it has seen byte e.
RECURSIVE Buffered(_, _)
Buffered(e, size) == IF e <= size THEN size ELSE Buffered(e, 2 * size + minRead)

\* Ciphertext.ReadFrom into a zero Ciphertext, from a reader that fills every buffer it is
\* given while it has data (a file, a strings.Reader): (n, err) and the receiver. n is
\* what the decoder has taken from the limited reader, whole pieces or all there is.
ReadFrom(x) ==
    LET Returned(R, d) ==
            LET pieces == Buffered(d.read, minRead)
                n == IF Len(R) <= pieces THEN Len(R) ELSE pieces
            IN  IF ~d.ok \/ d.ct.Key = ""
                THEN [n |-> n, err |-> ErrCiphertextMalformed, ct |-> d.ct]
                ELSE [n |-> n, err |-> Nil, ct |-> d.ct]
        Decoded(R) == Returned(R, Decode(R))
    IN  Decoded(LimitedReader(x, MaxSize))

\* --- the codec on its own: Ciphertexts to write and read back, texts to read
\* The valid keys: the non-empty strings of at most two of a letter, a blank, the quote
\* and the backslash.
Keys ==
    LET chars == {"k", " ", "\"", "\\"} IN
    chars \cup {a \o b : a \in chars, b \in chars}

\* Blobs are at most this long.
MaxBlob == 3

Blobs == UNION {[1 .. l -> {0, 91, 255}] : l \in 0 .. MaxBlob}

\* The valid Ciphertexts: a non-empty key, any blob.
Ciphertexts == [Key : Keys, Bytes : Blobs]

\* Names of the members of a record read.
MemberNames == {"key", "KEY", "key-2", "bytes"}

\* Values of the members of a record read: the JSON text; whether it is a string and the
\* string it writes; whether that is base64 and the blob it writes.
MemberValues ==
    { [json |-> "\"\"", string |-> TRUE, str |-> "", base64 |-> TRUE, blob |-> <<>>],
      [json |-> "\" \"", string |-> TRUE, str |-> " ", base64 |-> FALSE, blob |-> <<>>],
      [json |-> "\"k\"", string |-> TRUE, str |-> "k", base64 |-> FALSE, blob |-> <<>>],
      [json |-> "\"W2R7\"", string |-> TRUE, str |-> "W2R7", base64 |-> TRUE,
       blob |-> <<91, 100, 123>>],
      [json |-> "\"AA==\"", string |-> TRUE, str |-> "AA==", base64 |-> TRUE, blob |-> <<0>>],
      [json |-> "null", string |-> FALSE, str |-> "", base64 |-> FALSE, blob |-> <<>>],
      [json |-> "2", string |-> FALSE, str |-> "", base64 |-> FALSE, blob |-> <<>>],
      [json |-> "[91]", string |-> FALSE, str |-> "", base64 |-> FALSE, blob |-> <<91>>] }

\* A record read has at most two members.
MemberLists ==
    LET Member == [name : MemberNames, value : MemberValues] IN
    {<<>>} \cup {<<m>> : m \in Member} \cup {<<m, n>> : m \in Member, n \in Member}

RECURSIVE Repeat(_, _)
Repeat(ch, n) == IF n = 0 THEN "" ELSE ch \o Repeat(ch, n - 1)

\* The texts read: blanks (none, one, or so many that the record crosses MaxSize), a
\* record of members, cut before its closing brace or not, and further data (none, one
\* character, or more than MaxSize).
Texts ==
    [kind : {"text"}, members : MemberLists, cut : BOOLEAN,
     lead : {0, 1, MaxSize - 1}, trail : {"", "x", Repeat("x", MaxSize)}]

\* The record of a text, from its opening brace to its closing one.
RecordText(g) ==
    LET MemberText(m) == "\"" \o m.name \o "\":" \o m.value.json IN
    "{" \o (IF Len(g.members) = 0 THEN ""
            ELSE IF Len(g.members) = 1 THEN MemberText(g.members[1])
            ELSE MemberText(g.members[1]) \o "," \o MemberText(g.members[2]))
        \o (IF g.cut THEN "" ELSE "}")

TextOf(g) == Repeat(" ", g.lead) \o RecordText(g) \o g.trail

NoRead == [n |-> 0, err |-> "none", ct |-> NoCiphertext]

storeVars == <<backend, kms, cache, path, data, store, lock, once, gcStarted, th, calls, last,
               idle, created, fresh, gone, everDel, dup, faults>>

\* A Ciphertext to write and read back, or a text to read.
CodecInit ==
    /\ StoreInit /\ backend = "fs" /\ kms
    /\ \/ /\ given \in [kind : {"ciphertext"}, c : Ciphertexts]
          /\ wire = ""
       \/ /\ given \in Texts
          /\ wire = TextOf(given)
    /\ result = NoRead

\* c.WriteTo(w)
CodecWriteTo ==
    /\ given.kind = "ciphertext" /\ wire = ""
    /\ wire' = WriteTo(given.c).text
    /\ UNCHANGED <<given, result>>
    /\ UNCHANGED storeVars

\* c.ReadFrom(r), c a fresh Ciphertext
CodecReadFrom ==
    /\ wire # "" /\ result = NoRead
    /\ result' = ReadFrom(wire)
    /\ UNCHANGED <<given, wire>>
    /\ UNCHANGED storeVars

CodecNext == CodecWriteTo \/ CodecReadFrom

CodecSpec == CodecInit /\ [][CodecNext]_vars

\* ------------------------------------------------------------------ claims ----
\* The lines of a log.
Range(f) == {f[i] : i \in DOMAIN f}

\* No Create of n is in progress.
NoCreateRunning(n) == \A u \in Threads : ~Running(u, "Create", n)

\* No call on n is in progress.
Quiescent(n) == \A u \in Threads : ~(InProgress(u) /\ th[u].name = n)

\* C1: when callers concurrently Create one absent name, and no KMS or I/O call fails
\* and no Delete of the name is called, exactly one Create returns nil, every other
\* one returns ErrKeyExists, and a Get called after all of them have returned yields
\* the Secret of the successful Create. This holds for both backends.
C1_OneCreateWins ==
    LET n == last.name IN
    (~faults /\ last.op # "none" /\ ~everDel[n]) =>
        /\ ~dup
        /\ last.op = "Create" => last.err \in {Nil, ErrKeyExists}
        /\ (last.op = "Create" /\ NoCreateRunning(n)) => created[n] # None
        /\ (last.op = "Get" /\ {"after", "quiet"} \subseteq last.marks) =>
              (last.err = Nil /\ last.sec = created[n])

\* C2: after Create(n, s) has returned nil and before any Delete(n) is called, every
\* Create(n, s2) whose KMS call and whose OpenFile do not fail for a reason of their
\* own returns ErrKeyExists and changes nothing: the backend entry of n still encodes
\* s, and the cache entry of n, if there is one, is not s2 unless s2 is s.
C2_SecondCreateKeyExists ==
    LET n == last.name IN
    (last.op = "Create" /\ "after" \in last.marks /\ last.err \notin {ErrEncrypt, ErrIO}) =>
        /\ last.err = ErrKeyExists
        /\ BackendHas(n) /\ BackendSecret(n) = created[n]
        /\ cache[n] \in {NoEntry, created[n]}

\* C3: a Create(n, s) that returned nil, followed directly by Get(n) (no Delete of n
\* running when it returned or called since, no sweep having evicted n meanwhile),
\* makes that Get return nil and the plaintext s, with and without a KMS.
C3_CreateThenGet ==
    (last.op = "Get" /\ "fresh" \in last.marks) =>
        (last.err = Nil /\ last.sec = fresh[last.name] /\ last.sec \in Secrets)

\* C3 witness: with a KMS, a Get called directly after Create(n, "s2") returned nil
\* has returned.
C3_Witness ==
    /\ kms /\ last.op = "Get" /\ "fresh" \in last.marks
    /\ last.err = Nil /\ last.sec = "s2"

\* C4: eviction never changes results. After Create(n, s) has returned nil, with no
\* Delete(n) called since and no KMS or I/O call failing, a Get(n) that finds the
\* cache entry of n gone returns s and leaves s in the cache, on both backends, with
\* and without a KMS.
C4_EvictionKeepsResult ==
    LET n == last.name IN
    (last.op = "Get" /\ {"after", "miss"} \subseteq last.marks /\ ~faults) =>
        (last.err = Nil /\ last.sec = created[n] /\ cache[n] = created[n])

\* C5: no KMS or file system call failing, a Get(n) after Delete(n) has returned, with
\* no Create(n) in between, returns ErrKeyNotFound; and Delete(n) of a name absent from
\* the backend returns nil.
C5_DeleteThenGet ==
    /\ (last.op = "Get" /\ "gone" \in last.marks /\ ~faults) => last.err = ErrKeyNotFound
    /\ (last.op = "Delete" /\ "absent" \in last.marks /\ ~faults) => last.err = Nil

\* C6: the cache is never authoritative. Whenever no call on n is in progress, the
\* cache holds an entry for n only if the backend does, and the cached Secret is the
\* one that re-reading (and re-decrypting) that backend entry yields.
C6_CacheNeverAuthoritative ==
    \A n \in Names :
        (Quiescent(n) /\ cache[n] # NoEntry /\ ~faults) =>
            (BackendHas(n) /\ cache[n] = BackendSecret(n))

\* C7: the cache pre-check of Create is not the authority: once a Delete(n) has
\* returned and no Create(n) has been called since, the next Create(n, s) returns
\* nil, also when Get(n) calls ran concurrently with that Delete.
C7_CreateAfterDelete ==
    (last.op = "Create" /\ "gone" \in last.marks /\ ~faults) => last.err = Nil

\* The stored text that thread t's Get parses.
GetText(t) == IF backend = "fs" THEN data[th[t].fd] ELSE th[t].buf

\* Thread t's call returns in this step.
Returns(t) == InProgress(t) /\ th'[t].pc = "idle"

\* C8: with a KMS, a Get that missed the cache and whose stored text is no Ciphertext,
\* or whose Decrypt fails, returns exactly ErrKeySealed and the empty Secret, and
\* changes neither the cache nor the backend.
C8_SealedGet ==
    [][\A t \in Threads :
         (/\ kms /\ th[t].op = "Get"
          /\ \/ th[t].pc = "g_read" /\ CiphertextReadFrom(GetText(t)).err # Nil
                /\ th'[t].pc # "g_read"
             \/ th[t].pc = "g_dec" /\ Returns(t))
         => (/\ Returns(t)
             /\ last'.err = ErrKeySealed /\ last'.sec = ZeroSecret
             /\ cache' = cache /\ Backend' = Backend)]_vars

\* C8 witness: with a KMS, a Get found stored text that is no Ciphertext and has
\* returned ErrKeySealed.
C8_Witness ==
    /\ kms /\ last.op = "Get" /\ last.err = ErrKeySealed
    /\ last.log = <<"fs: failed to parse ciphertext">>

\* C9: with a KMS, a Create whose Encrypt fails returns an error, and no step of the
\* call up to that return changes the cache or the backend: the name gains no entry.
C9_EncryptFailure ==
    [][\A t \in Threads :
         /\ (th[t].pc = "c_enc" /\ Returns(t)) =>
                (/\ last'.op = "Create" /\ last'.err # Nil
                 /\ cache' = cache /\ Backend' = Backend)
         /\ (th[t].pc = "idle" /\ th'[t].pc = "c_enc") =>
                (cache' = cache /\ Backend' = Backend)]_vars

\* C9 witness: a Create of an absent name has returned the Encrypt error, and the name
\* is in neither the backend nor the cache.
C9_Witness ==
    /\ kms /\ last.op = "Create" /\ last.err = ErrEncrypt
    /\ ~BackendHas(last.name) /\ cache[last.name] = NoEntry

\* C10: in the fs backend, a Create whose write or sync failed returns that error
\* (never the removal's), no step after the cache pre-check touches the cache, and
\* unless the removal is logged as failed no file is at the path when it returns.
C10_Rollback ==
    [][\A t \in Threads :
         /\ (backend = "fs" /\ th[t].pc = "c_rm" /\ Returns(t)) =>
                (/\ last'.err = th[t].err /\ last'.err \in {ErrWrite, ErrSync}
                 /\ cache' = cache
                 /\ ("fs: cannot remove" \notin Range(last'.log) => path'[th[t].name] = 0))
         /\ (backend = "fs" /\ th[t].pc \in {"c_open", "c_write", "c_sync", "c_rm"}
             /\ th'[t].pc # th[t].pc) => cache' = cache]_vars

\* C10 witness: a Create whose sync failed has returned the sync error, its file is
\* removed and the name is not in the cache.
C10_Witness ==
    /\ backend = "fs" /\ last.op = "Create" /\ last.err = ErrSync
    /\ last.log = <<"fs: cannot to flush and sync">>
    /\ path[last.name] = 0 /\ cache[last.name] = NoEntry

\* C11: Delete(n) always purges the cache entry of n: it returns the backend's
\* removal error when that is another one than not-found, nil when the removal answered
\* not-found (as it does for an absent entry when no file system call fails), and in
\* every case the cache holds no entry for n when it returns.
C11_DeletePurges ==
    [][\A t \in Threads :
         (th[t].op = "Delete" /\ Returns(t)) =>
             (/\ cache'[th[t].name] = NoEntry
              /\ last'.op = "Delete"
              /\ last'.err = (IF backend = "fs" THEN th[t].err ELSE Nil)
              /\ last'.err # ErrNotExist
              /\ ("absent" \in th[t].marks /\ ~faults) => last'.err = Nil)]_vars

\* C11 witness: a Delete of a cached name whose backend removal failed has returned
\* that error, and the name is not in the cache.
C11_Witness ==
    /\ last.op = "Delete" /\ last.err = ErrIO /\ "cached" \in last.marks
    /\ cache[last.name] = NoEntry /\ BackendHas(last.name)

\* The stored text of n is the serialized Ciphertext that Encrypt returns for some
\* Secret under the configured key, and not that Secret's own serialization.
StoredEncrypted(n) ==
    \E s \in Secrets :
        /\ BackendText(n) = CiphertextString(KMSEncrypt(MasterKey, s))
        /\ BackendText(n) # SecretString(s)

\* C12: with a KMS, in every reachable state each written backend entry is the
\* serialized Ciphertext of KMS.Encrypt(Key, s), never the plaintext serialization,
\* and each cache entry holds a plaintext Secret that was passed to Create.
C12_CiphertextAtRest ==
    kms => \A n \in Names :
              /\ (BackendHas(n) /\ BackendText(n) # <<>>) => StoredEncrypted(n)
              /\ cache[n] # NoEntry => cache[n] \in Secrets

\* The calls that run the lazy initialisation: Create and Get in the fs backend,
\* Create alone in the mem backend.
Initialises(op) == IF backend = "fs" THEN op \in {"Create", "Get"} ELSE op = "Create"

\* C13 (as claimed): however many callers race into their first Create or Get, the
\* two sweeps are started exactly once: never twice, and once a Create or a Get has
\* got past its start or has returned they are started, or the caller that initialises
\* is about to start them.
C13_InitOnceAnyCall ==
    LET started == gcStarted = 1 \/ \E t \in Threads : th[t].pc \in {"c_init", "g_init"} IN
    /\ gcStarted <= 1
    /\ last.op \in {"Create", "Get"} => started
    /\ \A t \in Threads : (InProgress(t) /\ th[t].op \in {"Create", "Get"}) => started

\* C13 (amended): the sweeps are never started twice. In the fs backend the one caller
\* that swaps store.once starts them: as long as no Create or Get has been called they
\* are not started, and once one has been called they are started or that caller is
\* about to start them, other calls going on and returning meanwhile. In the mem
\* backend they are started as soon as a Create has got past its start or has
\* returned, together with the allocation of the table, which is never nil again.
C13_InitOnce ==
    /\ gcStarted <= 1
    /\ backend = "fs" =>
          /\ once = 0 => (gcStarted = 0 /\ \A t \in Threads : th[t].op \notin {"Create", "Get"})
          /\ once = 1 =>
                IF gcStarted = 0
                THEN Cardinality({t \in Threads : th[t].pc \in {"c_init", "g_init"}}) = 1
                ELSE \A t \in Threads : th[t].pc \notin {"c_init", "g_init"}
          /\ (last.op \in {"Create", "Get"}) => once = 1
    /\ backend = "mem" =>
          /\ Initialises(last.op) => gcStarted = 1
          /\ \A t \in Threads : (InProgress(t) /\ Initialises(th[t].op)) => gcStarted = 1
          /\ store.nil <=> gcStarted = 0

\* C13 witness: two callers are inside their calls at once, a third call has already
\* returned, and the sweeps have been started once.
C13_Witness ==
    /\ gcStarted = 1 /\ calls >= 3
    /\ \A t \in Threads : InProgress(t) /\ Initialises(th[t].op)

\* Thread u is inside a KMS call or, in the fs backend, inside a file system call.
InsideIO(u) ==
    \/ th[u].pc \in {"c_enc", "g_dec"}
    \/ backend = "fs" /\ th[u].pc \in {"c_open", "c_write", "c_sync", "c_rm", "g_open", "g_read"}

\* A caller enters Create, Get, Delete of n as thread t and takes the first step.
StartCreate(t, n) == \E s \in Secrets : FsCreateCheck(t, n, s) \/ MemCreateCheck(t, n, s)

StartGet(t, n) == FsGetCheck(t, n) \/ MemGetCheck(t, n)

StartDelete(t, n) == FsDeleteRemove(t, n) \/ MemDeleteCache(t, n)

\* The next step of thread t's call in progress.
StepOf(t) ==
    \/ FsStartGC(t) \/ FsCreateLookup(t) \/ FsGetLookup(t)
    \/ FsCreateEncrypt(t) \/ FsCreateOpen(t) \/ FsCreateWrite(t) \/ FsCreateSync(t)
    \/ FsCreateRollback(t) \/ FsCreateSet(t)
    \/ FsGetOpen(t) \/ FsGetRead(t) \/ FsGetDecrypt(t) \/ FsGetAdd(t) \/ FsDeleteCache(t)
    \/ MemCreateEncrypt(t) \/ MemCreatePut(t) \/ MemCreateStore(t) \/ MemDeleteStore(t)
    \/ MemGetLookup(t) \/ MemGetParse(t) \/ MemGetDecrypt(t) \/ MemGetSet(t)

\* C14: while a caller is inside backend I/O or a KMS call for name a, every call on
\* another name b can go on: a Create, a Get and a Delete of b can each be entered,
\* and a call on b that is in progress can take its next step, without the first
\* caller moving.
C14_OtherNamesNotBlocked ==
    \A u \in Threads :
        (InProgress(u) /\ InsideIO(u)) =>
            \A t \in Threads \ {u}, b \in Names \ {th[u].name} :
                /\ CanCall(t, b) =>
                      (ENABLED StartCreate(t, b) /\ ENABLED StartGet(t, b)
                       /\ ENABLED StartDelete(t, b))
                /\ (InProgress(t) /\ th[t].name = b) => ENABLED StepOf(t)

\* C15: with CacheExpireUnusedAfter = T, the idle sweep evicts only an entry that has not
\* been read for at least T, so an entry read within every interval shorter than T stays;
\* an entry not read for T or longer is one the sweep evicts; and Get can still retrieve
\* it from the backend: no KMS or I/O call failing, a Get of a created and not deleted
\* name that finds the cache entry gone returns the Secret created, without error.
C15_IdleExpiry ==
    [][/\ \A n \in Names :
            /\ IdleSweeps(n) => idle[n] >= CacheExpireUnusedAfter
            /\ (cache[n] # NoEntry /\ idle[n] >= CacheExpireUnusedAfter)
                   => ENABLED IdleSweeps(n)
       /\ \A t \in Threads :
            (/\ th[t].op = "Get" /\ Returns(t)
             /\ {"after", "miss"} \subseteq th[t].marks /\ ~faults') =>
                (last'.err = Nil /\ last'.sec = created[th[t].name])]_vars

\* C15, the case that fails: on the fs backend with a KMS, no call having failed and no
\* Delete having been called, a Get of a created name missed the cache, whose entry the
\* idle sweep had evicted, and returned the empty Secret without error.
C15_Witness ==
    /\ backend = "fs" /\ kms /\ ~faults
    /\ last.op = "Get" /\ last.err = Nil
    /\ last.sec = ZeroSecret /\ created[last.name] # ZeroSecret
    /\ {"after", "miss"} \subseteq last.marks
    /\ ~everDel[last.name]

\* C16: every valid Ciphertext (a non-empty key, any blob), written with String / WriteTo
\* and read with ReadFrom into a fresh Ciphertext, is read without error and comes back
\* with the same Key and the same Bytes.
C16_RoundTrip ==
    (given.kind = "ciphertext" /\ result # NoRead) =>
        (result.err = Nil /\ result.ct = given.c)

\* C17: ReadFrom of a text no larger than MaxSize fails with "ciphertext is malformed" when
\* the record has an unknown field (a member that is neither "key" nor "bytes"), no key
\* or an empty one, is not well formed, or has a blob (a value of "bytes" other than
\* null) that is not a string of base64; it succeeds,
\* with the Key and the Bytes written, on every well-formed record of the two fields
\* whose key is not empty.
C17_ReadFromErrors ==
    LET m == given.members
        Named(name) == {i \in 1 .. Len(m) : m[i].name = name}
        unknownField == \E i \in 1 .. Len(m) : m[i].name \notin {"key", "bytes"}
        keyMissingOrEmpty == \A i \in Named("key") : ~m[i].value.string \/ m[i].value.str = ""
        blobInvalid == \E i \in Named("bytes") :
                           m[i].value.json # "null" /\ ~(m[i].value.string /\ m[i].value.base64)
        twoFields == /\ ~given.cut /\ Len(m) = 2
                     /\ \E k \in Named("key"), b \in Named("bytes") :
                           /\ m[k].value.string /\ m[k].value.str # ""
                           /\ m[b].value.string /\ m[b].value.base64
        written == [Key |-> m[CHOOSE i \in Named("key") : TRUE].value.str,
                    Bytes |-> m[CHOOSE i \in Named("bytes") : TRUE].value.blob]
    IN  (given.kind = "text" /\ result # NoRead /\ Len(wire) <= MaxSize) =>
            /\ (unknownField \/ keyMissingOrEmpty \/ given.cut \/ blobInvalid)
                  => result.err = ErrCiphertextMalformed
            /\ twoFields => (result.err = Nil /\ result.ct = written)

\* C18: ReadFrom fails on every text larger than MaxSize, whatever it holds, and reads at
\* most MaxSize of it.
C18_SizeCap ==
    result # NoRead =>
        /\ result.n <= MaxSize
        /\ Len(wire) > MaxSize => result.err = ErrCiphertextMalformed

\* C19: the step of a Get that populates the cache after a miss adds the entry only if
\* there is none: an entry put there since the miss is neither overwritten nor put in
\* anew, and the Get returns the Secret that is in the cache after the step.
C19_GetAddsIfAbsent ==
    [][\A t \in Threads :
         (th[t].op = "Get" /\ th[t].pc = "g_add" /\ Returns(t)) =>
             /\ cache[th[t].name] # NoEntry => cache'[th[t].name] = cache[th[t].name]
             /\ "replaced" \notin last'.marks
             /\ last'.sec = cache'[th[t].name]]_vars

\* C20: a filesystem Get that reads the file of a Create which has created it and has not
\* yet returned from writing and flushing it reads the complete text of the Secret, and
\* goes on to return it: it does not end in a parse error or ErrKeySealed.
C20_NoPartialSecret ==
    [][\A t \in Threads, u \in Threads :
         (/\ backend = "fs"
          /\ th[t].op = "Get" /\ th[t].pc = "g_read" /\ th'[t].pc # th[t].pc
          /\ th[u].op = "Create" /\ th[u].pc \in {"c_write", "c_sync"}
          /\ th[u].fd = th[t].fd)
             => (data[th[t].fd] = th[u].buf /\ ~Returns(t))]_vars

\* ---------------------------------------------------------------- fairness ----
\* Every call in progress goes on: the scheduler runs each caller, every KMS call and
\* every file system call returns (with or without an error), and a caller that waits
\* for store.lock gets it once it stays free. Nothing makes a caller call.
Fairness == \A t \in Threads : WF_vars(StepOf(t) /\ Instant)

\* Calls issued over a run in which fairness is taken into account.
MaxFairCalls == 3

\* The steps of the store within the first MaxFairCalls calls.
FairNext == Next /\ calls' <= MaxFairCalls

FairSpec == Init /\ [][FairNext]_vars /\ Fairness

\* The statements of the mem store that run with store.lock held.
LockHeldAt == {"c_enc", "c_put", "c_wr", "d_store", "g_read", "g_dec", "g_add"}

\* C21: no operation blocks for ever. Under fair scheduling, with every KMS call and
\* every backend I/O call returning, every Create, Get and Delete in progress returns
\* in the end, on the success path and on each error path; in the mem backend the store
\* lock is held only by a call in progress at a statement under the lock (so every
\* exit has released it) and is always free again later; and in no reachable state
\* with calls in progress are all of them blocked.
C21_NoIndefiniteBlocking ==
    /\ [](\A t \in Threads : lock = t => (InProgress(t) /\ th[t].pc \in LockHeldAt))
    /\ []((\E t \in Threads : InProgress(t)) => \E t \in Threads : ENABLED (StepOf(t) /\ Instant))
    /\ \A t \in Threads : InProgress(t) ~> ~InProgress(t)
    /\ (lock # Free) ~> (lock = Free)

\* C21 witness: in the mem backend a Create whose Encrypt failed has returned its error
\* with the lock released, while another caller's Get waits to take the lock.
C21_Witness ==
    /\ backend = "mem" /\ last.op = "Create" /\ last.err = ErrEncrypt
    /\ lock = Free
    /\ \E t \in Threads : th[t].op = "Get" /\ th[t].pc = "g_open"

\* C22: in the fs backend the rollback of a Create whose write or flush failed removes
\* only the file that this Create made: the file it takes from the path is its own, and
\* the file of a Create that has returned nil, no Delete of the name called since, is
\* still at the path after the rollback, so that the name stays in the backend.
C22_RollbackOwnEntry ==
    [][\A t \in Threads :
         (backend = "fs" /\ th[t].pc = "c_rm" /\ Returns(t)) =>
             /\ path'[th[t].name] # path[th[t].name] => path[th[t].name] = th[t].fd
             /\ created[th[t].name] # None => path'[th[t].name] # 0]_vars

=============================================================================
